---------------------------- MODULE Spec2Model ----------------------------
(***************************************************************************)
(* A model of the ODS-2 volume reader of src/__main__.py: the decoders of  *)
(* the on-disk structures (FileID, DirectoryRecord, File, the retrieval    *)
(* map), the bootstrap ODS2.read_home_block, and the four requests         *)
(* getattr, readdir, readlink and read.                                    *)
(*                                                                         *)
(* A bytes object is the record [len, nz]: len is its length and nz maps   *)
(* the offsets of its non-zero bytes to their values; every other byte is  *)
(* 0.  Text is a sequence of character codes.  A Python exception is the   *)
(* record [ok |-> FALSE, err |-> <its class>].  The timestamps of a header *)
(* (64-bit tick counts turned into floats) and the uid/gid that getattr    *)
(* takes from os.lstat are left out: no decision of the code reads them.   *)
(* struct's native formats ('BBH', 'h') are little-endian, as on the       *)
(* x86 and ARM hosts the program runs on.                                  *)
(***************************************************************************)
EXTENDS Integers, Sequences, FiniteSets, TLC

VARIABLES
    pc,                   \* "start" | "mounted" | "replying" | "aborted"
    disk,                 \* ODS2.disk, the image
    mountpoint,           \* ODS2.mountpoint
    volume_name,          \* ODS2.volume_name
    reserved_file_count,  \* ODS2.reserved_file_count
    bitmap_blocks,        \* ODS2.bitmap_blocks
    index_file,           \* ODS2.index_file
    mfd,                  \* ODS2.mfd
    files,                \* ODS2.files
    req,                  \* the last request made of the mounted volume
    ret                   \* what that request returned, or the exception it raised

vars == <<pc, disk, mountpoint, volume_name, reserved_file_count, bitmap_blocks,
          index_file, mfd, files, req, ret>>

volume == <<disk, mountpoint, volume_name, reserved_file_count, bitmap_blocks,
            index_file, mfd, files>>

BLOCK_SIZE == 512

---------------------------------------------------------------------------
(* Python values                                                           *)

None == [kind |-> "None"]

\* an int where None may stand instead
Some(n) == [kind |-> "int", v |-> n]

Raise(e) == [ok |-> FALSE, err |-> e]

Min(a, b) == IF a < b THEN a ELSE b

\* int(a / b) for b > 0: the float quotient truncated toward zero
TruncDiv(a, b) == IF a >= 0 THEN a \div b ELSE -((-a) \div b)

RECURSIVE BitAnd(_, _)
BitAnd(a, b) ==
    IF a = 0 \/ b = 0 THEN 0
    ELSE (IF a % 2 = 1 /\ b % 2 = 1 THEN 1 ELSE 0) + 2 * BitAnd(a \div 2, b \div 2)

RECURSIVE BitOr(_, _)
BitOr(a, b) ==
    IF a = 0 THEN b
    ELSE IF b = 0 THEN a
    ELSE (IF a % 2 = 1 \/ b % 2 = 1 THEN 1 ELSE 0) + 2 * BitOr(a \div 2, b \div 2)

\* seq[i] of a Python list: a negative index counts from the end
PyInRange(seq, i) == -Len(seq) <= i /\ i < Len(seq)
PyIndex(seq, i) == IF i >= 0 THEN seq[i + 1] ELSE seq[Len(seq) + i + 1]
PySet(seq, i, v) == [seq EXCEPT ![IF i >= 0 THEN i + 1 ELSE Len(seq) + i + 1] = v]

---------------------------------------------------------------------------
(* bytes                                                                   *)

EmptyBytes == [len |-> 0, nz |-> <<>>]

ByteAt(d, o) == IF o \in DOMAIN d.nz THEN d.nz[o] ELSE 0

\* struct.unpack_from(fmt, d, o) with calcsize(fmt) = n raises struct.error otherwise
CanUnpack(d, o, n) == o >= 0 /\ o + n <= d.len

U16(d, o) == ByteAt(d, o) + 256 * ByteAt(d, o + 1)
U32(d, o) == U16(d, o) + 65536 * U16(d, o + 2)
S16(d, o) == IF U16(d, o) >= 32768 THEN U16(d, o) - 65536 ELSE U16(d, o)

\* d[a:b] for 0 <= a <= b, as a bytes object: a slice never raises, it is cut at len
Slice(d, a, b) ==
    LET e == Min(b, d.len)
        n == IF e > a THEN e - a ELSE 0
    IN [len |-> n,
        nz  |-> [o \in {x \in 0 .. n - 1 : ByteAt(d, a + x) # 0} |-> ByteAt(d, a + o)]]

\* the concatenation a + b
Concat(a, b) ==
    [len |-> a.len + b.len,
     nz  |-> [o \in DOMAIN a.nz \cup {a.len + x : x \in DOMAIN b.nz} |->
                 IF o < a.len THEN a.nz[o] ELSE b.nz[o - a.len]]]

\* the bytes of d as a sequence of codes
Codes(d) == [i \in 1 .. d.len |-> ByteAt(d, i - 1)]

\* bytes.decode('ascii') raises UnicodeDecodeError on a byte above 127
IsAscii(s) == \A i \in 1 .. Len(s) : s[i] < 128

\* s[:-1] when s ends with '.'
StripDot(s) == IF Len(s) > 0 /\ s[Len(s)] = 46 THEN SubSeq(s, 1, Len(s) - 1) ELSE s

\* str.strip(): the whitespace of an ASCII str
IsSpace(c) == c \in {9, 10, 11, 12, 13, 28, 29, 30, 31, 32}

Strip(s) ==
    LET keep == {i \in 1 .. Len(s) : ~IsSpace(s[i])}
    IN IF keep = {} THEN <<>>
       ELSE SubSeq(s, CHOOSE i \in keep : \A j \in keep : i <= j,
                      CHOOSE i \in keep : \A j \in keep : j <= i)

\* s.rsplit(';', 1)[0]
RsplitSemi(s) ==
    LET at == {i \in 1 .. Len(s) : s[i] = 59}
    IN IF at = {} THEN s
       ELSE SubSeq(s, 1, (CHOOSE i \in at : \A j \in at : j <= i) - 1)

---------------------------------------------------------------------------
(* FileID, DirectoryEntry, DirectoryRecord                                 *)

\* FileID.__init__ on the six bytes at offset o of d
FileID(d, o) ==
    [file_number            |-> BitOr(ByteAt(d, o + 5) * 65536, U16(d, o)),
     sequence_number        |-> U16(d, o + 2),
     relative_volume_number |-> ByteAt(d, o + 4)]

DirectoryEntry_SIZE == 8

\* DirectoryEntry.__init__: '<H6s' at offset, the FileID of the last six bytes
DirectoryEntry(d, offset) ==
    IF ~CanUnpack(d, offset, DirectoryEntry_SIZE) THEN Raise("struct.error")
    ELSE [ok |-> TRUE, fid |-> FileID(d, offset + 2)]

RECURSIVE ReadEntries(_, _, _, _)
ReadEntries(d, offset, n, acc) ==
    IF n <= 0 THEN [ok |-> TRUE, entries |-> acc]
    ELSE LET e == DirectoryEntry(d, offset)
         IN IF ~e.ok THEN e
            ELSE ReadEntries(d, offset + DirectoryEntry_SIZE, n - 1,
                             Append(acc, [fid |-> e.fid]))

\* the record DirectoryRecord.__init__ leaves, es being its entries as read
record_of(size, name, es) ==
    IF ~es.ok THEN es
    ELSE [ok |-> TRUE,
          rec |-> [kind |-> "DirectoryRecord", size |-> size, name |-> name,
                   entries |-> es.entries]]

\* DirectoryRecord.__init__
DirectoryRecord(d, offset) ==
    IF ~CanUnpack(d, offset, 6) THEN Raise("struct.error")
    ELSE LET W_SIZE      == U16(d, offset)
             B_NAMECOUNT == ByteAt(d, offset + 5)
             size        == W_SIZE + 2
             T_NAME      == Codes(Slice(d, offset + 6, offset + 6 + B_NAMECOUNT))
             after       == offset + 6 + B_NAMECOUNT
             aligned     == IF BitAnd(after, 1) = 1 THEN after + 1 ELSE after
             entries_count == TruncDiv(size - B_NAMECOUNT, DirectoryEntry_SIZE)
         IN IF ~IsAscii(T_NAME) THEN Raise("UnicodeDecodeError")
            ELSE record_of(size, StripDot(T_NAME),
                           ReadEntries(d, aligned, entries_count, <<>>))

---------------------------------------------------------------------------
(* File: one file header                                                   *)

\* File.read_ident: '<20sHQQQQ66s' at offset; the name is
\* (T_FILENAME + T_FILENAMEEXT).decode('ascii').strip(), cut at its last ';',
\* less one trailing '.'
read_ident(d, offset) ==
    IF ~CanUnpack(d, offset, 120) THEN Raise("struct.error")
    ELSE LET T_FILENAME    == Codes(Slice(d, offset, offset + 20))
             T_FILENAMEEXT == Codes(Slice(d, offset + 54, offset + 120))
             raw           == T_FILENAME \o T_FILENAMEEXT
         IN IF ~IsAscii(raw) THEN Raise("UnicodeDecodeError")
            ELSE [ok |-> TRUE, name |-> StripDot(RsplitSemi(Strip(raw)))]

\* One pass of the loop of File.read_map: the retrieval pointer at offset, as
\* [ok, lbn, block_count, next], next being the offset after it
read_pointer(d, offset) ==
    IF ~(offset + 1 < d.len) THEN Raise("IndexError")
    ELSE LET V_FORMAT == BitAnd(ByteAt(d, offset + 1), 192) \div 64
         IN CASE V_FORMAT = 0 ->
                  IF ~CanUnpack(d, offset, 2) THEN Raise("struct.error")
                  ELSE [ok |-> TRUE, lbn |-> 0, block_count |-> 0, next |-> offset + 2]
              [] V_FORMAT = 1 ->
                  IF ~CanUnpack(d, offset, 4) THEN Raise("struct.error")
                  ELSE LET B_COUNT1  == ByteAt(d, offset)
                           V_HIGHLBN == BitAnd(ByteAt(d, offset + 1), 63)
                           W_LOWLBN  == U16(d, offset + 2)
                       IN [ok |-> TRUE, lbn |-> BitOr(V_HIGHLBN * 65536, W_LOWLBN),
                           block_count |-> B_COUNT1, next |-> offset + 4]
              [] V_FORMAT = 2 ->
                  IF ~CanUnpack(d, offset, 4) THEN Raise("struct.error")
                  ELSE LET V_COUNT2 == BitAnd(U16(d, offset), 16383)
                           W_LBN2   == U16(d, offset + 2)
                       IN [ok |-> TRUE, lbn |-> W_LBN2,
                           block_count |-> V_COUNT2, next |-> offset + 6]
              [] V_FORMAT = 3 ->
                  \* 'BBH': two single bytes and one 16-bit word, four bytes in all
                  IF ~CanUnpack(d, offset, 4) THEN Raise("struct.error")
                  ELSE LET V_COUNT2   == BitAnd(ByteAt(d, offset), 16383)
                           W_LOWCOUNT == ByteAt(d, offset + 1)
                           L_LBN3     == U16(d, offset + 2)
                       IN [ok |-> TRUE, lbn |-> L_LBN3,
                           block_count |-> BitOr(V_COUNT2 * 65536, W_LOWCOUNT),
                           next |-> offset + 8]

\* The loop of File.read_map from offset on; map_step is the rest of one pass,
\* p being the pointer read in it
RECURSIVE read_map_loop(_, _, _, _, _)
RECURSIVE map_step(_, _, _, _, _)
map_step(d, end_offset, map, total, p) ==
    IF ~p.ok THEN p
    ELSE read_map_loop(d, p.next, end_offset,
                       Append(map, [lbn |-> p.lbn, block_count |-> p.block_count]),
                       total + p.block_count)

read_map_loop(d, offset, end_offset, map, total) ==
    IF ~(offset < end_offset)
    THEN [ok |-> TRUE, map |-> map, total_block_count |-> total,
          size |-> total * BLOCK_SIZE]
    ELSE map_step(d, end_offset, map, total, read_pointer(d, offset))

\* File.read_map, on the empty map and total_block_count 0 that __init__ sets
read_map(d, offset, B_MAP_INUSE) ==
    read_map_loop(d, offset, offset + B_MAP_INUSE * 2, <<>>, 0)

\* the sum of the block counts of the first n extents of map
RECURSIVE BaseOf(_, _)
BaseOf(map, n) == IF n = 0 THEN 0 ELSE BaseOf(map, n - 1) + map[n].block_count

\* File.get_lbn_for_vbn: None is returned by falling off the loop
RECURSIVE lbn_loop(_, _, _, _)
lbn_loop(map, i, base_block_count, vbn) ==
    IF i > Len(map) THEN None
    ELSE IF base_block_count <= vbn /\ vbn < base_block_count + map[i].block_count
         THEN Some(map[i].lbn + (vbn - base_block_count))
         ELSE lbn_loop(map, i + 1, base_block_count + map[i].block_count, vbn)

\* get_lbn_for_vbn without `vbn -= 1`
get_lbn_for_vbn_from_zero(map, vbn) == lbn_loop(map, 1, 0, vbn)

get_lbn_for_vbn(map, vbn) == lbn_loop(map, 1, 0, vbn - 1)

\* The inner loop of File.read_directory_records: at most left more records of
\* one block, from offset; block_step is the rest of one pass, r being the record
\* decoded in it
RECURSIVE read_block_records(_, _, _, _)
RECURSIVE block_step(_, _, _, _, _)
block_step(d, offset, left, acc, r) ==
    IF ~r.ok THEN r
    ELSE read_block_records(d, offset + r.rec.size, left - 1, Append(acc, r.rec))

read_block_records(d, offset, left, acc) ==
    IF left = 0 THEN [ok |-> TRUE, records |-> acc]
    ELSE IF ~CanUnpack(d, offset, 2) THEN Raise("struct.error")
    ELSE IF S16(d, offset) < 0 THEN [ok |-> TRUE, records |-> acc]
    ELSE block_step(d, offset, left, acc, DirectoryRecord(d, offset))

\* the vbn that ends `for vbn in range(1, total_block_count)`
LastDirVbn(total_block_count) == total_block_count - 1

\* The outer loop of File.read_directory_records; dir_step is the rest of one
\* pass, b being the records read so far, the block's included
RECURSIVE read_dir_loop(_, _, _, _, _)
RECURSIVE dir_step(_, _, _, _, _)
dir_step(d, map, vbn, last, b) ==
    IF ~b.ok THEN b ELSE read_dir_loop(d, map, vbn + 1, last, b.records)

read_dir_loop(d, map, vbn, last, acc) ==
    IF vbn > last THEN [ok |-> TRUE, records |-> acc]
    ELSE LET lbn == get_lbn_for_vbn(map, vbn)
         IN IF lbn.kind = "None" THEN Raise("TypeError")
            ELSE dir_step(d, map, vbn, last,
                          read_block_records(d, lbn.v * BLOCK_SIZE, 62, acc))

read_directory_records(d, map, total_block_count) ==
    read_dir_loop(d, map, 1, LastDirVbn(total_block_count), <<>>)

\* File.__init__ once the directory records rs are read (`self.records = []`
\* onwards): the header.  named is whether read_ident ran, that is whether the
\* object has the attribute name.
File_records(d, offset, id, m, rs) ==
    IF ~rs.ok THEN rs
    ELSE [ok |-> TRUE,
          file |-> [kind |-> "File",
                    fid |-> FileID(d, offset + 8),
                    ext_fid |-> FileID(d, offset + 14),
                    is_directory |-> BitAnd(ByteAt(d, offset + 53), 32) = 32,
                    named |-> ByteAt(d, offset) # 255,
                    name |-> id.name,
                    map |-> m.map,
                    total_block_count |-> m.total_block_count,
                    size |-> m.size,
                    records |-> rs.records]]

\* File.__init__ once the map m is read: (L_FILECHAR & 8192) == 8192 is bit 5 of
\* the second byte of L_FILECHAR
File_map(d, offset, id, m) ==
    IF ~m.ok THEN m
    ELSE File_records(d, offset, id, m,
             IF BitAnd(ByteAt(d, offset + 53), 32) = 32
             THEN read_directory_records(d, m.map, m.total_block_count)
             ELSE [ok |-> TRUE, records |-> <<>>])

\* File.__init__ once the identification area id is read
File_ident(d, offset, id) ==
    IF ~id.ok THEN id
    ELSE File_map(d, offset, id,
             IF ByteAt(d, offset + 1) # 255
             THEN read_map(d, offset + ByteAt(d, offset + 1) * 2, ByteAt(d, offset + 58))
             ELSE [ok |-> TRUE, map |-> <<>>, total_block_count |-> 0,
                   size |-> BLOCK_SIZE])

\* File.__init__: '<BBBBHH6s6s32sI2xB' at offset; B_IDOFFSET is its first byte,
\* B_MPOFFSET its second, B_MAP_INUSE its last
File(d, offset) ==
    IF ~CanUnpack(d, offset, 59) THEN Raise("struct.error")
    ELSE File_ident(d, offset,
             IF ByteAt(d, offset) # 255
             THEN read_ident(d, offset + ByteAt(d, offset) * 2)
             ELSE [ok |-> TRUE, name |-> <<>>])

\* File.get_record_by_name: the first record of that name, or None
get_record_by_name(file, name) ==
    LET at == {i \in 1 .. Len(file.records) : file.records[i].name = name}
    IN IF at = {} THEN None
       ELSE file.records[CHOOSE i \in at : \A j \in at : i <= j]

---------------------------------------------------------------------------
(* ODS2: the bootstrap                                                     *)

\* '000000.DIR'
MFD_NAME == <<48, 48, 48, 48, 48, 48, 46, 68, 73, 82>>

\* the size read_home_block gives the MFD
MFD_SIZE == 666

\* the vbn that ends `for vbn in range(1, self.index_file.total_block_count)`
LastScanVbn(total_block_count) == total_block_count - 1

\* The header scan of read_home_block, from vbn on, as [ok, mfd, files];
\* scan_step is the rest of one pass, f being the header decoded in it.  The
\* header is decoded twice, once for the MFD test and once for the table: the
\* two objects are equal and distinct.
RECURSIVE scan_headers(_, _, _, _, _, _, _)
RECURSIVE scan_step(_, _, _, _, _, _, _, _)
scan_step(d, imap, bm, vbn, last, m, fs, f) ==
    IF ~f.ok THEN f
    ELSE IF ~f.file.named THEN Raise("AttributeError")
    ELSE IF ~PyInRange(fs, f.file.fid.file_number - 1) THEN Raise("IndexError")
    ELSE scan_headers(d, imap, bm, vbn + 1, last,
                      IF f.file.name = MFD_NAME THEN f.file ELSE m,
                      PySet(fs, f.file.fid.file_number - 1, f.file))

scan_headers(d, imap, bm, vbn, last, m, fs) ==
    IF vbn > last THEN [ok |-> TRUE, mfd |-> m, files |-> fs]
    ELSE LET lbn == get_lbn_for_vbn(imap, bm + vbn)
         IN IF lbn.kind = "None" THEN Raise("TypeError")
            ELSE IF ~(lbn.v * BLOCK_SIZE < d.len) THEN Raise("IndexError")
            ELSE IF ByteAt(d, lbn.v * BLOCK_SIZE) = 0
                 THEN [ok |-> TRUE, mfd |-> m, files |-> fs]
                 ELSE scan_step(d, imap, bm, vbn, last, m, fs,
                                File(d, lbn.v * BLOCK_SIZE))

\* skip_clusters that drops the extents and leaves total_block_count as it was
skip_clusters_keeps_total(f) ==
    [f EXCEPT !.map = SubSeq(f.map, Min(3, Len(f.map)) + 1, Len(f.map))]

\* index_file after "Skip the first 3 clusters": map[:3] is taken off the map
\* and off total_block_count; size stays as read_map left it
skip_clusters(f) ==
    LET k == Min(3, Len(f.map))
    IN [f EXCEPT !.total_block_count = f.total_block_count - BaseOf(f.map, k),
                 !.map = SubSeq(f.map, k + 1, Len(f.map))]

\* read_home_block once the scan sc is over: the MFD gets its size
home_done(T_VOLNAME, W_RESFILES, W_IBMAPSIZE, idx, sc) ==
    IF ~sc.ok THEN sc
    ELSE IF sc.mfd.kind = "None" THEN Raise("AttributeError")
    ELSE [ok |-> TRUE,
          volume_name |-> T_VOLNAME,
          reserved_file_count |-> W_RESFILES,
          bitmap_blocks |-> W_IBMAPSIZE,
          index_file |-> idx,
          mfd |-> [sc.mfd EXCEPT !.size = MFD_SIZE],
          files |-> sc.files]

\* read_home_block from `count = 0` on, idx being index_file less its first
\* three extents
home_scan(d, T_VOLNAME, W_RESFILES, W_IBMAPSIZE, idx) ==
    home_done(T_VOLNAME, W_RESFILES, W_IBMAPSIZE, idx,
              scan_headers(d, idx.map, W_IBMAPSIZE, 1,
                           LastScanVbn(idx.total_block_count), None,
                           [i \in 1 .. idx.total_block_count |-> None]))

\* read_home_block once the header h of the index file is decoded
home_index(d, T_VOLNAME, W_RESFILES, W_IBMAPSIZE, h) ==
    IF ~h.ok THEN h
    ELSE home_scan(d, T_VOLNAME, W_RESFILES, W_IBMAPSIZE, skip_clusters(h.file))

\* ODS2.read_home_block on the image d, as [ok, ...the attributes it sets]
read_home_block(d) ==
    IF ~CanUnpack(d, BLOCK_SIZE, 512) THEN Raise("struct.error")
    ELSE LET L_IBMAPLBN  == U32(d, BLOCK_SIZE + 24)
             W_IBMAPSIZE == U16(d, BLOCK_SIZE + 32)
             W_RESFILES  == U16(d, BLOCK_SIZE + 34)
             T_STRUCNAME == Codes(Slice(d, BLOCK_SIZE + 460, BLOCK_SIZE + 472))
             T_VOLNAME   == Codes(Slice(d, BLOCK_SIZE + 472, BLOCK_SIZE + 484))
             T_OWNERNAME == Codes(Slice(d, BLOCK_SIZE + 484, BLOCK_SIZE + 496))
             T_FORMAT    == Codes(Slice(d, BLOCK_SIZE + 496, BLOCK_SIZE + 508))
         IN IF ~IsAscii(T_STRUCNAME \o T_VOLNAME \o T_OWNERNAME \o T_FORMAT)
            THEN Raise("UnicodeDecodeError")
            ELSE home_index(d, T_VOLNAME, W_RESFILES, W_IBMAPSIZE,
                            File(d, (L_IBMAPLBN + W_IBMAPSIZE) * BLOCK_SIZE))

---------------------------------------------------------------------------
(* ODS2: path resolution and the requests                                  *)

\* path.split('/') of a non-empty path
RECURSIVE SplitSlash(_, _, _)
SplitSlash(path, i, cur) ==
    IF i > Len(path) THEN <<cur>>
    ELSE IF path[i] = 47 THEN <<cur>> \o SplitSlash(path, i + 1, <<>>)
    ELSE SplitSlash(path, i + 1, Append(cur, path[i]))

\* the parts of get_file_by_path: one leading and one trailing '/' are taken off
PathParts(path) ==
    LET p1 == IF Len(path) > 0 /\ path[1] = 47 THEN SubSeq(path, 2, Len(path)) ELSE path
        p2 == IF Len(p1) > 0 /\ p1[Len(p1)] = 47 THEN SubSeq(p1, 1, Len(p1) - 1) ELSE p1
    IN IF Len(p2) > 0 THEN SplitSlash(p2, 1, <<>>) ELSE <<>>

\* the loop of get_file_by_path over parts[i..], file being the header so far
RECURSIVE walk(_, _, _, _)
walk(fs, file, parts, i) ==
    IF i > Len(parts) THEN [ok |-> TRUE, file |-> file]
    ELSE IF file.kind = "None" THEN Raise("AttributeError")
    ELSE LET rec == get_record_by_name(file, parts[i])
         IN IF rec.kind = "None" THEN Raise("AttributeError")
            ELSE IF Len(rec.entries) = 0 THEN Raise("IndexError")
            ELSE LET index == rec.entries[1].fid.file_number - 1
                 IN IF ~PyInRange(fs, index) THEN Raise("IndexError")
                    ELSE walk(fs, PyIndex(fs, index), parts, i + 1)

\* ODS2.get_file_by_path, as [ok, file]: file is a header or None
get_file_by_path(m, fs, path) == walk(fs, m, PathParts(path), 1)

S_IFREG_444 == 33060
S_IFDIR_555 == 16749

\* ODS2.getattr
getattr(m, fs, path) ==
    LET r == get_file_by_path(m, fs, path)
    IN IF ~r.ok THEN r
       ELSE IF r.file.kind = "None" THEN Raise("AttributeError")
       ELSE [ok |-> TRUE,
             st |-> [st_size  |-> r.file.size,
                     st_mode  |-> IF r.file.is_directory THEN S_IFDIR_555 ELSE S_IFREG_444,
                     st_nlink |-> 0]]

\* the loop of ODS2.readdir over records[i..]
RECURSIVE dirents_loop(_, _, _, _)
dirents_loop(records, i, rfc, dirents) ==
    IF i > Len(records) THEN [ok |-> TRUE, dirents |-> dirents]
    ELSE IF Len(records[i].entries) = 0 THEN Raise("IndexError")
    ELSE IF records[i].entries[1].fid.file_number <= rfc
         THEN dirents_loop(records, i + 1, rfc, dirents)
         ELSE dirents_loop(records, i + 1, rfc, Append(dirents, records[i].name))

\* readdir with `file_number < self.reserved_file_count` for its `<=`
readdir_strict(m, fs, rfc, path) ==
    LET r == get_file_by_path(m, fs, path)
    IN IF ~r.ok THEN r
       ELSE IF r.file.kind = "None" THEN Raise("AttributeError")
       ELSE dirents_loop(r.file.records, 1, rfc - 1, << <<46>>, <<46, 46>> >>)

\* ODS2.readdir: the names it yields, '.' being <<46>>
readdir(m, fs, rfc, path) ==
    LET r == get_file_by_path(m, fs, path)
    IN IF ~r.ok THEN r
       ELSE IF r.file.kind = "None" THEN Raise("AttributeError")
       ELSE dirents_loop(r.file.records, 1, rfc, << <<46>>, <<46, 46>> >>)

\* '/000000.DIR'
MFD_LINK == <<47>> \o MFD_NAME

\* ODS2.readlink
readlink(mp, path) ==
    [ok |-> TRUE, target |-> IF path = MFD_LINK THEN mp ELSE <<>>]

\* The loop of ODS2.read.  data_offset is never below len(data), so the slice
\* assignment data[data_offset:data_offset + 512] = ... appends to data.
RECURSIVE read_loop(_, _, _, _, _)
read_loop(d, file, offset, end_offset, data) ==
    IF ~(offset < end_offset) THEN [ok |-> TRUE, data |-> data]
    ELSE LET vbn == (offset \div BLOCK_SIZE) + 1
             lbn == get_lbn_for_vbn(file.map, vbn)
         IN IF lbn.kind = "None" THEN Raise("TypeError")
            ELSE read_loop(d, file, offset + BLOCK_SIZE, end_offset,
                           Concat(data, Slice(d, lbn.v * BLOCK_SIZE,
                                                 lbn.v * BLOCK_SIZE + BLOCK_SIZE)))

\* ODS2.read
read(d, m, fs, path, length, offset) ==
    IF offset % BLOCK_SIZE # 0 THEN [ok |-> TRUE, data |-> EmptyBytes]
    ELSE LET r == get_file_by_path(m, fs, path)
         IN IF ~r.ok THEN r
            ELSE IF r.file.kind = "None" THEN [ok |-> TRUE, data |-> EmptyBytes]
            ELSE read_loop(d, r.file, offset,
                           Min(offset + length, r.file.size), EmptyBytes)

---------------------------------------------------------------------------
(* The images the volume is mounted on.  An image is laid out as the       *)
(* decoders read it: the home block at LBN 1, bm blocks of index bitmap    *)
(* from LBN 2, then MaxSlots header slots of which the first n are in use. *)
(* File 1 is INDEXF.SYS, 2 the MFD, 3 A.TXT, 4 BIG.DAT; any further file   *)
(* is an X.DAT.                                                            *)

MaxBitmap == 2      \* W_IBMAPSIZE ranges over 0 .. MaxBitmap
MaxSlots == 4       \* header slots of the index file
ResFiles == {0, 2, 3}   \* W_RESFILES
DiskBlocks == 256

T_MFD == <<48, 48, 48, 48, 48, 48, 46, 68, 73, 82>>  \* '000000.DIR'
T_INDEXF == <<73, 78, 68, 69, 88, 70, 46, 83, 89, 83>>  \* 'INDEXF.SYS'
T_A == <<65, 46, 84, 88, 84>>  \* 'A.TXT'
T_BIG == <<66, 73, 71, 46, 68, 65, 84>>  \* 'BIG.DAT'
T_FAR == <<70, 65, 82, 46, 68, 65, 84>>  \* 'FAR.DAT'
T_LAST == <<76, 65, 83, 84, 46, 84, 88, 84>>  \* 'LAST.TXT'
T_X == <<88, 46, 68, 65, 84>>  \* 'X.DAT'

\* the non-zero bytes of s laid at offset o
Put(o, s) == [x \in {o + i - 1 : i \in {j \in 1 .. Len(s) : s[j] # 0}} |-> s[x - o + 1]]

LE16(v) == <<v % 256, v \div 256>>

Spaces(n) == [i \in 1 .. n |-> 32]

\* retrieval pointers of format 0, 1, 2 and one of format 3: W_COUNT2 = 0xC000,
\* W_LOWCOUNT = 2, L_LBN3 = 300
Ptr0 == <<0, 0>>
Ptr1(count, lbn) == <<count, 64 + (lbn \div 65536)>> \o LE16(lbn % 65536)
Ptr2(count, lbn) == LE16(32768 + count) \o LE16(lbn) \o <<0, 0>>
Ptr3 == <<0, 192, 2, 0, 44, 1, 0, 0>>

\* a header at block lbn: file number num, T_FILENAME name20, T_FILENAMEEXT ext,
\* the directory bit, and the bytes of its map area
Header(lbn, num, name20, ext, isdir, ptrs) ==
    LET b == lbn * BLOCK_SIZE
    IN Put(b, <<40, 100, 255, 255>>) @@ Put(b + 8, LE16(num) \o LE16(num))
       @@ Put(b + 53, <<IF isdir THEN 32 ELSE 0>>) @@ Put(b + 58, <<Len(ptrs) \div 2>>)
       @@ Put(b + 80, name20) @@ Put(b + 134, ext) @@ Put(b + 200, ptrs)

\* name;1 in a 20-byte field padded with spaces
Versioned(name) == name \o <<59, 49>> \o Spaces(18 - Len(name))

\* a directory record: name, and one entry (version, file number) per fid
RECURSIVE EntryBytes(_, _)
EntryBytes(fids, i) ==
    IF i > Len(fids) THEN <<>>
    ELSE LE16(Len(fids) - i + 1) \o LE16(fids[i]) \o LE16(fids[i]) \o <<0, 0>>
         \o EntryBytes(fids, i + 1)

RecordBytes(name, fids) ==
    LET padded == IF Len(name) % 2 = 1 THEN Append(name, 0) ELSE name
    IN LE16(4 + Len(padded) + 8 * Len(fids)) \o <<0, 0, 0, Len(name)>> \o padded
       \o EntryBytes(fids, 1)

EndOfBlock == <<255, 255>>

MfdLbn == 10

Image(bm, rf, n) ==
    LET h0 == 2 + bm
        slot(i) ==
            CASE i = 1 -> Header(h0, 1, Versioned(T_INDEXF), <<>>, FALSE,
                                 Ptr1(1, 0) \o Ptr1(1, 1) \o Ptr1(1, 1)
                                 \o Ptr1(bm + MaxSlots, 2))
              [] i = 2 -> Header(h0 + 1, 2, Versioned(T_MFD), <<>>, TRUE, Ptr1(2, MfdLbn))
              [] i = 3 -> Header(h0 + 2, 3, T_A \o <<46>> \o Spaces(14), Spaces(66), FALSE,
                                 Ptr1(3, 100) \o Ptr2(2, 200))
              [] i = 4 -> Header(h0 + 3, 4, Versioned(T_BIG), <<>>, FALSE, Ptr0 \o Ptr3)
              [] OTHER -> Header(h0 + i - 1, i, Versioned(T_X), <<>>, FALSE, Ptr1(1, 100))
        RECURSIVE slots(_)
        slots(i) == IF i = 0 THEN <<>> ELSE slot(i) @@ slots(i - 1)
    IN [len |-> DiskBlocks * BLOCK_SIZE,
        nz  |-> Put(BLOCK_SIZE + 24, <<2>>) @@ Put(BLOCK_SIZE + 32, LE16(bm))
                @@ Put(BLOCK_SIZE + 34, LE16(rf))
                @@ Put(BLOCK_SIZE + 472, <<83, 89, 83, 84, 69, 77>> \o Spaces(6))
                @@ slots(n)
                @@ Put(MfdLbn * BLOCK_SIZE,
                       RecordBytes(T_MFD, <<2>>) \o RecordBytes(T_A, <<3, 4>>)
                       \o RecordBytes(T_BIG, <<4>>) \o RecordBytes(T_FAR, <<200>>)
                       \o RecordBytes(T_INDEXF, <<1>>) \o EndOfBlock)
                @@ Put((MfdLbn + 1) * BLOCK_SIZE, RecordBytes(T_LAST, <<3>>) \o EndOfBlock)
                @@ Put(100 * BLOCK_SIZE, <<65>>) @@ Put(101 * BLOCK_SIZE + 5, <<66>>)
                @@ Put(200 * BLOCK_SIZE, <<67>>)]

Images == {Image(bm, rf, n) : bm \in 0 .. MaxBitmap, rf \in ResFiles, n \in 1 .. MaxSlots}

---------------------------------------------------------------------------
(* The requests                                                            *)

P_ROOT == <<47>>  \* '/'
P_EMPTY == <<>>  \* ''
P_A == <<47, 65, 46, 84, 88, 84>>  \* '/A.TXT'
P_A_SLASH == <<47, 65, 46, 84, 88, 84, 47>>  \* '/A.TXT/'
P_MFD == <<47, 48, 48, 48, 48, 48, 48, 46, 68, 73, 82>>  \* '/000000.DIR'
P_MFD_A == <<47, 48, 48, 48, 48, 48, 48, 46, 68, 73, 82, 47, 65, 46, 84, 88, 84>>  \* '/000000.DIR/A.TXT'
P_NOPE == <<47, 78, 79, 80, 69>>  \* '/NOPE'
P_FAR == <<47, 70, 65, 82, 46, 68, 65, 84>>  \* '/FAR.DAT'
P_BIG == <<47, 66, 73, 71, 46, 68, 65, 84>>  \* '/BIG.DAT'
P_LAST == <<47, 76, 65, 83, 84, 46, 84, 88, 84>>  \* '/LAST.TXT'

Paths == {P_ROOT, P_EMPTY, P_A, P_A_SLASH, P_MFD, P_MFD_A, P_NOPE, P_FAR, P_BIG, P_LAST}
Lengths == {0, 100, 512, 1024}
Offsets == {0, 7, 2048, 2560}

MOUNTPOINT == <<47, 109, 110, 116>>  \* '/mnt'

---------------------------------------------------------------------------
(* The state machine                                                       *)

Init ==
    /\ pc = "start"
    /\ disk \in Images
    /\ mountpoint = MOUNTPOINT
    /\ volume_name = <<>>
    /\ reserved_file_count = 0
    /\ bitmap_blocks = 0
    /\ index_file = None
    /\ mfd = None
    /\ files = <<>>
    /\ req = [op |-> "none"]
    /\ ret = [ok |-> TRUE]

\* ODS2.__init__ once read_home_block has returned or raised r: an exception
\* ends the construction and the process
Mounted(r) ==
    /\ IF r.ok
       THEN /\ pc' = "mounted"
            /\ volume_name' = r.volume_name
            /\ reserved_file_count' = r.reserved_file_count
            /\ bitmap_blocks' = r.bitmap_blocks
            /\ index_file' = r.index_file
            /\ mfd' = r.mfd
            /\ files' = r.files
            /\ ret' = [ok |-> TRUE]
       ELSE /\ pc' = "aborted"
            /\ ret' = r
            /\ UNCHANGED <<volume_name, reserved_file_count, bitmap_blocks,
                           index_file, mfd, files>>
    /\ req' = [op |-> "none"]
    /\ UNCHANGED <<disk, mountpoint>>

\* ODS2.__init__: the image is read and read_home_block runs
Mount ==
    /\ pc = "start"
    /\ Mounted(read_home_block(disk))

Getattr ==
    /\ pc = "mounted"
    /\ \E path \in Paths :
         /\ req' = [op |-> "getattr", path |-> path]
         /\ ret' = getattr(mfd, files, path)
    /\ pc' = "replying"
    /\ UNCHANGED volume

Readdir ==
    /\ pc = "mounted"
    /\ \E path \in Paths :
         /\ req' = [op |-> "readdir", path |-> path]
         /\ ret' = readdir(mfd, files, reserved_file_count, path)
    /\ pc' = "replying"
    /\ UNCHANGED volume

Readlink ==
    /\ pc = "mounted"
    /\ \E path \in Paths :
         /\ req' = [op |-> "readlink", path |-> path]
         /\ ret' = readlink(mountpoint, path)
    /\ pc' = "replying"
    /\ UNCHANGED volume

\* Read with the clamp assigned the wrong way round, `file.size = end_offset`
ReadSwapsClamp ==
    /\ pc = "mounted"
    /\ \E path \in Paths, length \in Lengths, offset \in Offsets :
         /\ req' = [op |-> "read", path |-> path, length |-> length, offset |-> offset]
         /\ ret' = read(disk, mfd, files, path, length, offset)
         /\ LET r == get_file_by_path(mfd, files, path)
            IN IF /\ offset % BLOCK_SIZE = 0
                  /\ r.ok
                  /\ r.file.kind = "File"
                  /\ offset + length > r.file.size
               THEN IF PathParts(path) = <<>>
                    THEN /\ mfd' = [mfd EXCEPT !.size = offset + length]
                         /\ files' = files
                    ELSE /\ files' = PySet(files, r.file.fid.file_number - 1,
                                           [r.file EXCEPT !.size = offset + length])
                         /\ mfd' = mfd
               ELSE UNCHANGED <<mfd, files>>
    /\ pc' = "replying"
    /\ UNCHANGED <<disk, mountpoint, volume_name, reserved_file_count, bitmap_blocks,
                   index_file>>

Read ==
    /\ pc = "mounted"
    /\ \E path \in Paths, length \in Lengths, offset \in Offsets :
         /\ req' = [op |-> "read", path |-> path, length |-> length, offset |-> offset]
         /\ ret' = read(disk, mfd, files, path, length, offset)
    /\ pc' = "replying"
    /\ UNCHANGED volume

\* The callback returns (or raises) into FUSE's loop, which runs the callbacks
\* one at a time (nothreads=True) and then waits for the next request
Reply ==
    /\ pc = "replying"
    /\ pc' = "mounted"
    /\ req' = [op |-> "none"]
    /\ ret' = [ok |-> TRUE]
    /\ UNCHANGED volume

Next == Mount \/ Getattr \/ Readdir \/ Readlink \/ Read \/ Reply

Spec == Init /\ [][Next]_vars

---------------------------------------------------------------------------
(* What the claims speak of                                                *)

\* every header the volume holds: the index file's, the MFD reference, the table
Held == <<index_file, mfd>> \o files

\* the sum of the block counts of a map
Blocks(map) == BaseOf(map, Len(map))

\* what the path of the request in hand resolves to
Resolved == get_file_by_path(mfd, files, req.path)

ResolvesToFile == Resolved.ok /\ Resolved.file.kind = "File"

---------------------------------------------------------------------------
\* C1: a read at a block-aligned offset within a file returns exactly
\* min(offset + length, size) - offset bytes, whatever the length.
C1_ReadLength ==
    (pc = "replying" /\ req.op = "read" /\ req.offset % BLOCK_SIZE = 0
        /\ ResolvesToFile /\ req.offset <= Resolved.file.size)
    => /\ ret.ok
       /\ ret.data.len = Min(req.offset + req.length, Resolved.file.size) - req.offset

---------------------------------------------------------------------------
\* C2: for every header held and every vbn in 1 .. total_block_count,
\* get_lbn_for_vbn is lbn + (vbn - 1 - base) for the one extent whose range
\* [base, base + count) holds vbn - 1; for any other vbn it is None.
ExtentsOf(f, v) ==
    {i \in 1 .. Len(f.map) :
        /\ BaseOf(f.map, i - 1) <= v - 1
        /\ v - 1 < BaseOf(f.map, i - 1) + f.map[i].block_count}

C2_Lookup ==
    pc = "mounted" =>
        \A k \in 1 .. Len(Held) :
            Held[k].kind = "File" =>
                \A v \in 0 .. Held[k].total_block_count + 2 :
                    IF 1 <= v /\ v <= Held[k].total_block_count
                    THEN /\ Cardinality(ExtentsOf(Held[k], v)) = 1
                         /\ \A i \in ExtentsOf(Held[k], v) :
                               get_lbn_for_vbn(Held[k].map, v) =
                                   Some(Held[k].map[i].lbn
                                        + (v - 1 - BaseOf(Held[k].map, i - 1)))
                    ELSE get_lbn_for_vbn(Held[k].map, v) = None

\* the volume holds a header with the map [(100, 3), (200, 2)], whose vbn 4 is
\* lbn 200 and whose vbn 6 is unmapped
C2_Witness ==
    /\ pc = "mounted"
    /\ \E i \in 1 .. Len(files) :
          /\ files[i].kind = "File"
          /\ files[i].map = << [lbn |-> 100, block_count |-> 3],
                               [lbn |-> 200, block_count |-> 2] >>
          /\ get_lbn_for_vbn(files[i].map, 3) = Some(102)
          /\ get_lbn_for_vbn(files[i].map, 4) = Some(200)
          /\ get_lbn_for_vbn(files[i].map, 6) = None

---------------------------------------------------------------------------
\* C3: readdir of a directory that path resolution reaches yields '.', '..' and
\* then, in record order, the names of exactly the records whose first entry's
\* file number is above W_RESFILES (each record carrying a first entry).
Shown(r) == r.entries[1].fid.file_number > reserved_file_count

NamesOf(records) == [i \in 1 .. Len(records) |-> records[i].name]

C3_Readdir ==
    (pc = "replying" /\ req.op = "readdir" /\ ResolvesToFile
        /\ \A i \in 1 .. Len(Resolved.file.records) :
              Len(Resolved.file.records[i].entries) > 0)
    => /\ ret.ok
       /\ ret.dirents = << <<46>>, <<46, 46>> >>
                        \o NamesOf(SelectSeq(Resolved.file.records, Shown))

\* a listing that hides a reserved file's record and shows another record
C3_Witness ==
    /\ pc = "replying" /\ req.op = "readdir" /\ ResolvesToFile /\ ret.ok
    /\ \E i, j \in 1 .. Len(Resolved.file.records) :
          /\ ~Shown(Resolved.file.records[i])
          /\ Shown(Resolved.file.records[j])
          /\ i < j
    /\ Len(ret.dirents) > 2
    /\ Len(ret.dirents) < 2 + Len(Resolved.file.records)

---------------------------------------------------------------------------
\* C4: path resolution never ends in an uncontrolled failure: a component
\* without a record, or whose record points at an empty or out-of-table slot,
\* gives the caller a "not found" outcome, here a result and not an exception.
\* A path that matches at every component gives the header of its last
\* component, and the empty path the MFD.
FirstPart == PathParts(req.path)[1]

C4_NotFound ==
    (pc = "replying"
        /\ \/ req.op \in {"getattr", "readdir"}
           \/ req.op = "read" /\ req.offset % BLOCK_SIZE = 0)
    => /\ Resolved.ok
       /\ ret.ok \/ ret.err \notin {"AttributeError", "IndexError"}
       /\ Len(PathParts(req.path)) = 0 => Resolved.file = mfd
       /\ (/\ Len(PathParts(req.path)) = 1
           /\ get_record_by_name(mfd, FirstPart).kind = "DirectoryRecord"
           /\ PyInRange(files,
                  get_record_by_name(mfd, FirstPart).entries[1].fid.file_number - 1))
          => Resolved.file =
                PyIndex(files,
                    get_record_by_name(mfd, FirstPart).entries[1].fid.file_number - 1)

---------------------------------------------------------------------------
\* C5 as claimed: after bootstrap every header held that has a non-empty map
\* has total_block_count = the sum of its block counts and size =
\* total_block_count * 512.
C5_AsClaimed ==
    pc = "mounted" =>
        \A k \in 1 .. Len(Held) :
            (Held[k].kind = "File" /\ Len(Held[k].map) > 0)
            => /\ Blocks(Held[k].map) = Held[k].total_block_count
               /\ Held[k].size = Held[k].total_block_count * BLOCK_SIZE

\* the header of the index file as it is on the disk
IndexHeader == File(disk, (U32(disk, BLOCK_SIZE + 24) + bitmap_blocks) * BLOCK_SIZE).file

\* C5 as amended: after bootstrap every header held has total_block_count = the
\* sum of its block counts; every header of the file table with a non-empty map
\* has size = total_block_count * 512; the MFD reference has size 666; the index
\* file's header keeps the size it had before its first three extents were
\* dropped, 512 * (total_block_count + the block counts of the dropped extents).
C5_Sizes ==
    pc = "mounted" =>
        /\ \A k \in 1 .. Len(Held) :
              Held[k].kind = "File" => Blocks(Held[k].map) = Held[k].total_block_count
        /\ \A i \in 1 .. Len(files) :
              (files[i].kind = "File" /\ Len(files[i].map) > 0)
              => files[i].size = files[i].total_block_count * BLOCK_SIZE
        /\ mfd.size = MFD_SIZE
        /\ index_file.size =
              BLOCK_SIZE * (index_file.total_block_count
                            + BaseOf(IndexHeader.map, Min(3, Len(IndexHeader.map))))

\* a mounted volume whose index file lost blocks to the drop, whose MFD has a
\* map of two blocks, and whose table holds a header with a non-empty map
C5_Witness ==
    /\ pc = "mounted"
    /\ index_file.size > index_file.total_block_count * BLOCK_SIZE
    /\ Len(index_file.map) > 0
    /\ Blocks(mfd.map) = 2
    /\ \E i \in 1 .. Len(files) : files[i].kind = "File" /\ Len(files[i].map) > 1

---------------------------------------------------------------------------
\* C6: after bootstrap the table entry at the MFD's file number minus 1 is the
\* MFD header, equal to the MFD reference in every attribute, size included; and
\* every header of the table sits at its own file number minus 1.
C6_MfdInTable ==
    pc = "mounted" =>
        /\ PyInRange(files, mfd.fid.file_number - 1)
        /\ PyIndex(files, mfd.fid.file_number - 1) = mfd
        /\ \A i \in 1 .. Len(files) :
              files[i].kind = "File" => files[i].fid.file_number - 1 = i - 1

---------------------------------------------------------------------------
\* C7: once bootstrap has finished no request changes the volume: the image,
\* the table, the MFD reference, the index file's header and the scalars stay
\* as they are, whatever the request and whether it returns or raises.
C7_Frame == [][pc # "start" => volume' = volume]_vars

\* a read whose path does not resolve has raised on a mounted volume, whose
\* table and MFD are still there
C7_Witness ==
    /\ pc = "replying"
    /\ req.op = "read" /\ ~ret.ok
    /\ mfd.kind = "File" /\ Len(mfd.records) > 0
    /\ \E i \in 1 .. Len(files) : files[i].kind = "File"

---------------------------------------------------------------------------
\* C8: the records of a directory are those of every block vbn 1 ..
\* total_block_count, the last block included, each block read until a negative
\* W_SIZE or 62 records.
C8_AllBlocks ==
    pc = "mounted" =>
        \A k \in 1 .. Len(Held) :
            (Held[k].kind = "File" /\ Held[k].is_directory)
            => Held[k].records =
                  read_dir_loop(disk, Held[k].map, 1, Held[k].total_block_count,
                                <<>>).records

---------------------------------------------------------------------------
\* C9: a retrieval pointer of format 1 gives count B_COUNT1 and LBN
\* ((B_HIGHLBN & 0x3F) << 16) | W_LOWLBN over 4 bytes; of format 2, count
\* W_COUNT2 & 0x3FFF and LBN W_LBN2 over 6 bytes; of format 3, count
\* ((W_COUNT2 & 0x3FFF) << 16) | W_LOWCOUNT and LBN L_LBN3 (bytes 4-7) over 8.
ClaimedPointer(d, o) ==
    LET fmt == ByteAt(d, o + 1) \div 64
    IN CASE fmt = 1 -> [ok |-> TRUE,
                        lbn |-> (ByteAt(d, o + 1) % 64) * 65536 + U16(d, o + 2),
                        block_count |-> ByteAt(d, o), next |-> o + 4]
         [] fmt = 2 -> [ok |-> TRUE, lbn |-> U16(d, o + 2),
                        block_count |-> U16(d, o) % 16384, next |-> o + 6]
         [] fmt = 3 -> [ok |-> TRUE, lbn |-> U32(d, o + 4),
                        block_count |-> (U16(d, o) % 16384) * 65536 + U16(d, o + 2),
                        next |-> o + 8]

\* the offsets of the retrieval pointers of the map area [o, e)
RECURSIVE PointerOffsets(_, _, _)
PointerOffsets(d, o, e) ==
    IF ~(o < e) \/ ~read_pointer(d, o).ok THEN {}
    ELSE {o} \cup PointerOffsets(d, read_pointer(d, o).next, e)

\* the offsets of the blocks whose header is in the file table
TableHeaderOffsets ==
    {b * BLOCK_SIZE : b \in {x \in 0 .. (disk.len \div BLOCK_SIZE) - 1 :
        /\ ByteAt(disk, x * BLOCK_SIZE) # 0
        /\ File(disk, x * BLOCK_SIZE).ok
        /\ \E i \in 1 .. Len(files) :
              /\ files[i].kind = "File"
              /\ files[i] = File(disk, x * BLOCK_SIZE).file}}

C9_Pointers ==
    pc = "mounted" =>
        \A h \in TableHeaderOffsets :
            ByteAt(disk, h + 1) # 255 =>
                \A o \in PointerOffsets(disk, h + ByteAt(disk, h + 1) * 2,
                            h + ByteAt(disk, h + 1) * 2 + ByteAt(disk, h + 58) * 2) :
                    ByteAt(disk, o + 1) \div 64 \in 1 .. 3
                    => read_pointer(disk, o) = ClaimedPointer(disk, o)

---------------------------------------------------------------------------
\* C10: the header scan visits vbn 1 .. total_block_count of the index file
\* (less its first three extents) at vbn bitmap_blocks + vbn until the first
\* unused block, so every in-use slot before the first unused one, the one at
\* total_block_count included, is in the table, and no lookup is unmapped.
SlotLbn(vbn) == get_lbn_for_vbn(index_file.map, bitmap_blocks + vbn)

SlotInUse(vbn) ==
    /\ SlotLbn(vbn).kind = "int"
    /\ SlotLbn(vbn).v * BLOCK_SIZE < disk.len
    /\ ByteAt(disk, SlotLbn(vbn).v * BLOCK_SIZE) # 0

C10_Scan ==
    /\ pc = "aborted" => ret.err # "TypeError"
    /\ pc = "mounted" =>
          \A vbn \in 1 .. index_file.total_block_count :
              (\A u \in 1 .. vbn : SlotInUse(u))
              => \E i \in 1 .. Len(files) :
                    /\ files[i].kind = "File"
                    /\ files[i] = File(disk, SlotLbn(vbn).v * BLOCK_SIZE).file
                    /\ files[i].fid.file_number - 1 = i - 1

===========================================================================
